---- MODULE Spec2Model ----
(***************************************************************************)
(* Model of crates/cli/src/print/json_print.rs: the streaming JSON array   *)
(* printer (JSONPrinter) and the record builders that feed it.             *)
(*                                                                         *)
(* Spec     : the encoder over a reliable sink. Producer threads call      *)
(*            print_docs concurrently on one JSONPrinter while a           *)
(*            controlling thread calls before_print and after_print.       *)
(*            print_matches, print_rule, print_diffs and print_rule_diffs  *)
(*            all map their items and hand the iterator to print_docs.     *)
(* FaultSpec: the same encoder over a sink whose writes may fail, leaving  *)
(*            a prefix of the bytes they were given.                       *)
(* RecSpec  : the record builders (MatchJSON::new, RuleMatchJSON::new,     *)
(*            from_env and the four print operations' map closures)        *)
(*            applied to inputs drawn from bounded sets.                   *)
(***************************************************************************)
EXTENDS Integers, Sequences, FiniteSets

\* ---------------------------------------------------------------- bounds
NProducers == 2      \* producer threads sharing the printer
MaxCalls   == 3      \* print calls made in one run with a reliable sink, over all producers
MaxFaultCalls == 2   \* print calls made in one run with a failing sink, over all producers
MaxRaceCalls == 2    \* print calls made in one run whose lifecycle calls race with the batches
MaxBatch   == 2      \* records in one batch
MaxFaults  == 2      \* failing writes injected by the sink in one run
MaxVars    == 2      \* descriptors enumerated by one binding environment

Controller == 0
Producers  == 1..NProducers
NoHolder   == -1
NoDoc      == <<0, 0>>

VARIABLES
  output,     \* bytes received by the sink W (records are single atoms)
  matched,    \* JSONPrinter.matched : AtomicBool
  lock,       \* holder of JSONPrinter.output : Mutex<W>, or NoHolder
  pc,         \* position of every thread in its current operation
  cur,        \* per producer: id of the batch of the call in progress
  pos,        \* per producer: records of the batch consumed from `docs`
  prior,      \* per producer: print_docs' local `matched` (the swapped-out value)
  apMatched,  \* after_print's local `matched`
  log,        \* print calls in start order: producer, batch size, result, whether the
              \* call swapped the flag from false, its rank among lock acquisitions,
              \* and whether the sink was held when the call was made
  faults,     \* failing writes so far
  sequenced,  \* the caller sequences before_print / after_print around all print calls
  sinkFails,  \* the sink W of this run may return errors from its writes
  req,        \* RecSpec: the print operation and the item it maps
  built,      \* RecSpec: the record the operation's closure built
  keys        \* RecSpec: the keys serde emits for `built`

runVars == <<sequenced, sinkFails>>
encVars == <<output, matched, lock, pc, cur, pos, prior, apMatched, log, faults>>
recVars == <<req, built, keys>>
vars    == <<output, matched, lock, pc, cur, pos, prior, apMatched, log, faults,
             sequenced, sinkFails, req, built, keys>>

\* ------------------------------------------------------------ sink bytes
Atom(c, d) == [ch |-> c, doc |-> d]
LBRACKET   == Atom("[", NoDoc)
RBRACKET   == Atom("]", NoDoc)
COMMA      == Atom(",", NoDoc)
NL         == Atom("\n", NoDoc)
Rec(d)     == Atom("rec", d)
Frag(d)    == Atom("frag", d)

\* What a failing write may leave in the sink: any proper prefix of the bytes;
\* a record is many bytes, so its proper prefixes are nothing or a fragment.
Partial(bytes) ==
  {SubSeq(bytes, 1, k) : k \in 0..(Len(bytes) - 1)}
    \cup (IF Len(bytes) = 1 /\ bytes[1].ch = "rec" THEN {<<Frag(bytes[1].doc)>>} ELSE {})

NoReq == [op |-> "none"]
None    == <<>>          \* Option::None
Some(v) == <<v>>         \* Option::Some(v)

EncInit ==
  /\ output = <<>>
  /\ matched = FALSE
  /\ lock = NoHolder
  /\ pc = [t \in {Controller} \cup Producers |-> IF t = Controller THEN "Unopened" ELSE "idle"]
  /\ cur = [p \in Producers |-> 0]
  /\ pos = [p \in Producers |-> 0]
  /\ prior = [p \in Producers |-> FALSE]
  /\ apMatched = FALSE
  /\ log = <<>>
  /\ faults = 0

\* a run over a sink whose writes all succeed
Init ==
  /\ EncInit
  /\ sequenced = TRUE /\ sinkFails = FALSE
  /\ req = NoReq /\ built = None /\ keys = {}

\* a run whose caller invokes before_print / after_print at any time, also
\* while batches are in flight
RaceInit ==
  /\ EncInit
  /\ sequenced = FALSE /\ sinkFails = FALSE
  /\ req = NoReq /\ built = None /\ keys = {}

\* a run over a sink whose writes may fail
FaultInit ==
  /\ EncInit
  /\ sequenced = TRUE /\ sinkFails = TRUE
  /\ req = NoReq /\ built = None /\ keys = {}

\* ------------------------------------------------------------ print_docs
CallCap == IF sinkFails THEN MaxFaultCalls ELSE IF sequenced THEN MaxCalls ELSE MaxRaceCalls

\* The producer threads are interchangeable: they are numbered in the order of
\* their first call, so a run is explored once and not once per renaming.
InOrder(p) == p = 1 \/ \E b \in 1..Len(log) : log[b].p = p - 1

CanCall(p) == /\ Len(log) < CallCap
              /\ InOrder(p)
              /\ sequenced => pc[Controller] = "Opened"

Goto(t, l) == pc' = [pc EXCEPT ![t] = l]

\* mutant: the error path leaves the sink locked
Return_err_keeps_lock(p, r) ==
  /\ log' = [log EXCEPT ![cur[p]].res = r]
  /\ lock' = IF r = "Err" THEN lock ELSE NoHolder
  /\ Goto(p, "idle")
  /\ cur' = [cur EXCEPT ![p] = 0]
  /\ pos' = [pos EXCEPT ![p] = 0]
  /\ prior' = [prior EXCEPT ![p] = FALSE]

\* return Ok(()) / Err(e) from print_docs: the MutexGuard and the locals are dropped
Return(p, r) ==
  /\ log' = [log EXCEPT ![cur[p]].res = r]
  /\ lock' = NoHolder
  /\ Goto(p, "idle")
  /\ cur' = [cur EXCEPT ![p] = 0]
  /\ pos' = [pos EXCEPT ![p] = 0]
  /\ prior' = [prior EXCEPT ![p] = FALSE]

\* mutant: the flag is swapped before the emptiness check
print_docs_empty_swapfirst(p) ==
  /\ pc[p] = "idle" /\ CanCall(p)
  /\ log' = Append(log, [p |-> p, n |-> 0, res |-> "Ok", first |-> FALSE, ord |-> 0,
                       held |-> lock # NoHolder])
  /\ matched' = TRUE
  /\ UNCHANGED <<output, lock, pc, cur, pos, prior, apMatched, faults, runVars, recVars>>

\* mutant: the emptiness check is made after the sink is locked
print_docs_empty_locked(p) ==
  /\ pc[p] = "idle" /\ CanCall(p)
  /\ lock = NoHolder
  /\ log' = Append(log, [p |-> p, n |-> 0, res |-> "Ok", first |-> FALSE, ord |-> 0,
                       held |-> lock # NoHolder])
  /\ UNCHANGED <<output, matched, lock, pc, cur, pos, prior, apMatched, faults, runVars, recVars>>

\* docs.peek().is_none(): return Ok(()) before the lock and the flag are touched
print_docs_empty(p) ==
  /\ pc[p] = "idle" /\ CanCall(p)
  /\ log' = Append(log, [p |-> p, n |-> 0, res |-> "Ok", first |-> FALSE, ord |-> 0,
                       held |-> lock # NoHolder])
  /\ UNCHANGED <<output, matched, lock, pc, cur, pos, prior, apMatched, faults, runVars, recVars>>

\* docs.peek() is Some: go on to self.output.lock()
print_docs_peek(p, n) ==
  /\ pc[p] = "idle" /\ CanCall(p)
  /\ n >= 1
  /\ log' = Append(log, [p |-> p, n |-> n, res |-> "Pending", first |-> FALSE, ord |-> 0,
                       held |-> lock # NoHolder])
  /\ cur' = [cur EXCEPT ![p] = Len(log) + 1]
  /\ pos' = [pos EXCEPT ![p] = 0]
  /\ Goto(p, "lock")
  /\ UNCHANGED <<output, matched, lock, prior, apMatched, faults, runVars, recVars>>

\* the print calls that have acquired the sink so far
Acquired == Cardinality({b \in 1..Len(log) : log[b].ord > 0})

\* mutant: the sink is written without waiting for the mutex
print_docs_lock_nowait(p) ==
  /\ pc[p] = "lock"
  /\ lock' = p
  /\ log' = [log EXCEPT ![cur[p]].ord = Acquired + 1]
  /\ Goto(p, "swap")
  /\ UNCHANGED <<output, matched, cur, pos, prior, apMatched, faults, runVars, recVars>>

\* let mut lock = self.output.lock()
print_docs_lock(p) ==
  /\ pc[p] = "lock"
  /\ lock = NoHolder
  /\ lock' = p
  /\ log' = [log EXCEPT ![cur[p]].ord = Acquired + 1]
  /\ Goto(p, "swap")
  /\ UNCHANGED <<output, matched, cur, pos, prior, apMatched, faults, runVars, recVars>>

\* mutant: the flag is read with a load instead of swap(true)
print_docs_swap_load(p) ==
  /\ pc[p] = "swap"
  /\ prior' = [prior EXCEPT ![p] = matched]
  /\ matched' = matched
  /\ log' = [log EXCEPT ![cur[p]].first = ~matched]
  /\ Goto(p, IF matched THEN "loop" ELSE "first_nl")
  /\ UNCHANGED <<output, lock, cur, pos, apMatched, faults, runVars, recVars>>

\* mutant: the swap stores false
print_docs_swap_false(p) ==
  /\ pc[p] = "swap"
  /\ prior' = [prior EXCEPT ![p] = matched]
  /\ matched' = FALSE
  /\ log' = [log EXCEPT ![cur[p]].first = ~matched]
  /\ Goto(p, IF matched THEN "loop" ELSE "first_nl")
  /\ UNCHANGED <<output, lock, cur, pos, apMatched, faults, runVars, recVars>>

\* mutant: the flag is toggled (fetch_xor) instead of set
print_docs_swap_toggle(p) ==
  /\ pc[p] = "swap"
  /\ prior' = [prior EXCEPT ![p] = matched]
  /\ matched' = ~matched
  /\ log' = [log EXCEPT ![cur[p]].first = ~matched]
  /\ Goto(p, IF matched THEN "loop" ELSE "first_nl")
  /\ UNCHANGED <<output, lock, cur, pos, apMatched, faults, runVars, recVars>>

\* let matched = self.matched.swap(true, AcqRel); if !matched { ... }
print_docs_swap(p) ==
  /\ pc[p] = "swap"
  /\ prior' = [prior EXCEPT ![p] = matched]
  /\ matched' = TRUE
  /\ log' = [log EXCEPT ![cur[p]].first = ~matched]
  /\ Goto(p, IF matched THEN "loop" ELSE "first_nl")
  /\ UNCHANGED <<output, lock, cur, pos, apMatched, faults, runVars, recVars>>

\* mutant: the error of a failing write is dropped and the batch goes on
Write_ignore_err(p, bytes, okpc, okpos) ==
  \/ /\ output' = output \o bytes
     /\ Goto(p, okpc)
     /\ pos' = [pos EXCEPT ![p] = okpos]
     /\ UNCHANGED <<lock, log, faults, cur, prior>>
  \/ /\ sinkFails /\ faults < MaxFaults
     /\ \E left \in Partial(bytes) : output' = output \o left
     /\ faults' = faults + 1
     /\ Goto(p, okpc)
     /\ pos' = [pos EXCEPT ![p] = okpos]
     /\ UNCHANGED <<lock, log, cur, prior>>

\* one write to the sink inside print_docs, followed by `?`
Write(p, bytes, okpc, okpos) ==
  \/ /\ output' = output \o bytes
     /\ Goto(p, okpc)
     /\ pos' = [pos EXCEPT ![p] = okpos]
     /\ UNCHANGED <<lock, log, faults, cur, prior>>
  \/ /\ sinkFails /\ faults < MaxFaults
     /\ \E left \in Partial(bytes) : output' = output \o left
     /\ faults' = faults + 1
     /\ Return(p, "Err")

\* the item the peekable iterator hands out next
NextDoc(p) == <<cur[p], pos[p] + 1>>

\* writeln!(&mut lock)?
print_docs_first_nl(p) ==
  /\ pc[p] = "first_nl"
  /\ Write(p, <<NL>>, "first_doc", pos[p])
  /\ UNCHANGED <<matched, apMatched, runVars, recVars>>

\* mutant: the first record is taken with peek(), so the loop emits it again
print_docs_first_doc_peek(p) ==
  /\ pc[p] = "first_doc"
  /\ Write(p, <<Rec(NextDoc(p))>>, "loop", pos[p])
  /\ UNCHANGED <<matched, apMatched, runVars, recVars>>

\* let doc = docs.next(); serde_json::to_writer_pretty(&mut *lock, &doc)?
print_docs_first_doc(p) ==
  /\ pc[p] = "first_doc"
  /\ Write(p, <<Rec(NextDoc(p))>>, "loop", pos[p] + 1)
  /\ UNCHANGED <<matched, apMatched, runVars, recVars>>

\* mutant: the separator is a bare newline
print_docs_sep_nocomma(p) ==
  /\ pc[p] = "loop"
  /\ pos[p] < log[cur[p]].n
  /\ Write(p, <<NL>>, "doc", pos[p])
  /\ UNCHANGED <<matched, apMatched, runVars, recVars>>

\* for doc in docs { writeln!(&mut lock, ",")?
print_docs_sep(p) ==
  /\ pc[p] = "loop"
  /\ pos[p] < log[cur[p]].n
  /\ Write(p, <<COMMA, NL>>, "doc", pos[p])
  /\ UNCHANGED <<matched, apMatched, runVars, recVars>>

\*   serde_json::to_writer_pretty(&mut *lock, &doc)? }
print_docs_doc(p) ==
  /\ pc[p] = "doc"
  /\ Write(p, <<Rec(NextDoc(p))>>, "loop", pos[p] + 1)
  /\ UNCHANGED <<matched, apMatched, runVars, recVars>>

\* the iterator is exhausted: Ok(())
print_docs_return(p) ==
  /\ pc[p] = "loop"
  /\ pos[p] = log[cur[p]].n
  /\ Return(p, "Ok")
  /\ UNCHANGED <<output, matched, apMatched, faults, runVars, recVars>>

\* ------------------------------------------- before_print / after_print
AllIdle == \A p \in Producers : pc[p] = "idle"

\* one write to the sink inside a lifecycle call, followed by `?`; a return
\* drops the MutexGuard and the local
CtlWrite(bytes, okpc, release) ==
  \/ /\ output' = output \o bytes
     /\ Goto(Controller, okpc)
     /\ lock' = IF release THEN NoHolder ELSE lock
     /\ apMatched' = IF release THEN FALSE ELSE apMatched
     /\ UNCHANGED faults
  \/ /\ sinkFails /\ faults < MaxFaults
     /\ \E left \in Partial(bytes) : output' = output \o left
     /\ faults' = faults + 1
     /\ lock' = NoHolder
     /\ apMatched' = FALSE
     /\ Goto(Controller, "Failed")

before_print_lock ==
  /\ pc[Controller] = "Unopened"
  /\ lock = NoHolder
  /\ lock' = Controller
  /\ Goto(Controller, "bp_write")
  /\ UNCHANGED <<output, matched, cur, pos, prior, apMatched, log, faults, runVars, recVars>>

\* write!(&mut lock, "[")?; Ok(())
before_print_write ==
  /\ pc[Controller] = "bp_write"
  /\ CtlWrite(<<LBRACKET>>, "Opened", TRUE)
  /\ UNCHANGED <<matched, cur, pos, prior, log, runVars, recVars>>

\* mutant: after_print takes the sink without waiting for its holder
after_print_lock_nowait ==
  /\ pc[Controller] = "Opened"
  /\ sequenced => AllIdle
  /\ lock' = Controller
  /\ Goto(Controller, "ap_load")
  /\ UNCHANGED <<output, matched, cur, pos, prior, apMatched, log, faults, runVars, recVars>>

\* let mut lock = self.output.lock().expect("should work")
after_print_lock ==
  /\ pc[Controller] = "Opened"
  /\ sequenced => AllIdle
  /\ lock = NoHolder
  /\ lock' = Controller
  /\ Goto(Controller, "ap_load")
  /\ UNCHANGED <<output, matched, cur, pos, prior, apMatched, log, faults, runVars, recVars>>

\* mutant: the newline before the closing bracket is unconditional
after_print_load_always ==
  /\ pc[Controller] = "ap_load"
  /\ apMatched' = matched
  /\ Goto(Controller, "ap_nl")
  /\ UNCHANGED <<output, matched, lock, cur, pos, prior, log, faults, runVars, recVars>>

\* let matched = self.matched.load(Acquire)
after_print_load ==
  /\ pc[Controller] = "ap_load"
  /\ apMatched' = matched
  /\ Goto(Controller, IF matched THEN "ap_nl" ELSE "ap_close")
  /\ UNCHANGED <<output, matched, lock, cur, pos, prior, log, faults, runVars, recVars>>

\* if matched { writeln!(&mut lock)?; }
after_print_nl ==
  /\ pc[Controller] = "ap_nl"
  /\ CtlWrite(<<NL>>, "ap_close", FALSE)
  /\ UNCHANGED <<matched, cur, pos, prior, log, runVars, recVars>>

\* writeln!(&mut lock, "]")?; Ok(())
after_print_close ==
  /\ pc[Controller] = "ap_close"
  /\ CtlWrite(<<RBRACKET, NL>>, "Closed", TRUE)
  /\ UNCHANGED <<matched, cur, pos, prior, log, runVars, recVars>>

Next ==
  \/ \E p \in Producers : print_docs_empty(p)
  \/ \E p \in Producers : \E n \in 1..MaxBatch : print_docs_peek(p, n)
  \/ \E p \in Producers : print_docs_lock(p)
  \/ \E p \in Producers : print_docs_swap(p)
  \/ \E p \in Producers : print_docs_first_nl(p)
  \/ \E p \in Producers : print_docs_first_doc(p)
  \/ \E p \in Producers : print_docs_sep(p)
  \/ \E p \in Producers : print_docs_doc(p)
  \/ \E p \in Producers : print_docs_return(p)
  \/ before_print_lock
  \/ before_print_write
  \/ after_print_lock
  \/ after_print_load
  \/ after_print_nl
  \/ after_print_close

Spec == Init /\ [][Next]_vars

FaultSpec == FaultInit /\ [][Next]_vars
RaceSpec == RaceInit /\ [][Next]_vars

\* the steps of producer p inside a print_docs call it has started
InCall(p) ==
  \/ print_docs_lock(p)
  \/ print_docs_swap(p)
  \/ print_docs_first_nl(p)
  \/ print_docs_first_doc(p)
  \/ print_docs_sep(p)
  \/ print_docs_doc(p)
  \/ print_docs_return(p)

\* the steps of the controlling thread inside before_print / after_print
InLifecycle ==
  \/ before_print_write
  \/ after_print_load
  \/ after_print_nl
  \/ after_print_close

\* Every thread that is inside a call is scheduled again; a thread waiting for
\* the mutex gets it once it stays free.
Fairness ==
  /\ \A p \in Producers : WF_vars(InCall(p))
  /\ WF_vars(InLifecycle)

FaultLiveSpec == FaultInit /\ [][Next]_vars /\ Fairness

\* ------------------------------------------------------- record builders
Names       == {"A", "B"}
\* MetaVariable: Named(name, _), NamedEllipsis(name), Anonymous(_), Ellipsis
Descriptors ==
  {[kind |-> k, name |-> n] : k \in {"Named", "NamedEllipsis"}, n \in Names}
    \cup {[kind |-> k, name |-> ""] : k \in {"Anonymous", "Ellipsis"}}

\* Node: its text, byte range, start and end position
NodeFoo == [text |-> "foo", range |-> <<4, 7>>,  start_pos |-> <<0, 4>>, end_pos |-> <<0, 7>>]
NodeBar == [text |-> "bar", range |-> <<9, 12>>, start_pos |-> <<1, 2>>, end_pos |-> <<1, 5>>]
NodeAll == [text |-> "f(foo, bar)", range |-> <<0, 13>>, start_pos |-> <<0, 0>>, end_pos |-> <<1, 6>>]
Nodes   == {NodeFoo, NodeBar}

VarSeqs == UNION {[1..k -> Descriptors] : k \in 0..MaxVars}
NamesOf(vs, kind) == {vs[i].name : i \in {j \in 1..Len(vs) : vs[j].kind = kind}}

\* MetaVarEnv: the descriptors it enumerates, and the bindings it looks up;
\* every enumerated name has its binding
EnvsOf(vs) ==
  {[vars |-> vs, single |-> sg, multi |-> ml, labels |-> lb] :
     sg \in [NamesOf(vs, "Named") -> Nodes],
     ml \in [NamesOf(vs, "NamedEllipsis") -> {<<>>, <<NodeFoo, NodeBar>>}],
     lb \in {None, Some(<<NodeBar>>)}}

Envs == UNION {EnvsOf(vs) : vs \in VarSeqs}

Insert(m, k, v) == [x \in (DOMAIN m) \cup {k} |-> IF x = k THEN v ELSE m[x]]
EmptyMap == [x \in {} |-> None]
Panic == "panic"

get_range(n) ==
  [byte_offset |-> n.range,
   start |-> [line |-> n.start_pos[1], column |-> n.start_pos[2]],
   end   |-> [line |-> n.end_pos[1],   column |-> n.end_pos[2]]]

MatchNode(n) == [text |-> n.text, range |-> get_range(n)]

\* env.get_multiple_matches(&n)
get_multiple_matches(env, n) == IF n \in DOMAIN env.multi THEN env.multi[n] ELSE <<>>

RECURSIVE from_env_loop(_, _, _, _)
\* for var in vars { match var { ... } }  Some(MetaVariables { single, multi })
from_env_loop(env, vs, single, multi) ==
  IF vs = <<>> THEN Some([single |-> single, multi |-> multi])
  ELSE LET var == Head(vs) IN
    IF var.kind = "Named" THEN
      IF var.name \notin DOMAIN env.single THEN Panic
      ELSE from_env_loop(env, Tail(vs),
                         Insert(single, var.name, MatchNode(env.single[var.name])), multi)
    ELSE IF var.kind = "NamedEllipsis" THEN
      LET nodes == get_multiple_matches(env, var.name) IN
      from_env_loop(env, Tail(vs), single,
                    Insert(multi, var.name, [i \in 1..Len(nodes) |-> MatchNode(nodes[i])]))
    ELSE from_env_loop(env, Tail(vs), single, multi)

\* vars.peek()?; then the loop over a non-empty enumeration
from_env(nm) ==
  IF nm.env.vars = <<>> THEN None
  ELSE from_env_loop(nm.env, nm.env.vars, EmptyMap, EmptyMap)

MatchJSON_new(nm, path) ==
  [file |-> path,
   text |-> nm.node.text,
   language |-> nm.lang,
   replacement |-> None,
   range |-> get_range(nm.node),
   meta_variables |-> from_env(nm)]

\* env.get_labels("secondary")
get_labels(nm) ==
  IF nm.env.labels = None THEN None
  ELSE Some([i \in 1..Len(nm.env.labels[1]) |-> MatchNode(nm.env.labels[1][i])])

\* RuleConfig::get_message: the rule's message rendered for the match
get_message(rule, nm) == <<rule.message, nm.node.text>>

\* mutant: the embedded record is built for the rule id instead of the path
RuleMatchJSON_new_wrongfile(nm, path, rule) ==
  [matched |-> MatchJSON_new(nm, rule.id),
   rule_id |-> rule.id,
   severity |-> rule.severity,
   message |-> get_message(rule, nm),
   labels |-> get_labels(nm)]

RuleMatchJSON_new(nm, path, rule) ==
  [matched |-> MatchJSON_new(nm, path),
   rule_id |-> rule.id,
   severity |-> rule.severity,
   message |-> get_message(rule, nm),
   labels |-> get_labels(nm)]

\* the closures the four print operations map over their items
print_matches_doc(nm, path) == MatchJSON_new(nm, path)

print_rule_doc(nm, path, rule) == RuleMatchJSON_new(nm, path, rule)

\* mutant: the replacement of the diff is not copied into the record
print_diffs_doc_norepl(diff, path) == MatchJSON_new(diff.node_match, path)

print_diffs_doc(diff, path) ==
  [MatchJSON_new(diff.node_match, path) EXCEPT !.replacement = Some(diff.replacement)]

print_rule_diffs_doc(diff, path, rule) ==
  [RuleMatchJSON_new(diff.node_match, path, rule)
     EXCEPT !.matched.replacement = Some(diff.replacement)]

\* the keys serde writes: Option fields are skipped when None,
\* RuleMatchJSON flattens MatchJSON
MatchJSON_keys(m) ==
  {"text", "range", "file", "language"}
    \cup (IF m.replacement = None THEN {} ELSE {"replacement"})
    \cup (IF m.meta_variables = None THEN {} ELSE {"metaVariables"})

RuleMatchJSON_keys(r) ==
  MatchJSON_keys(r.matched) \cup {"ruleId", "severity", "message"}
    \cup (IF r.labels = None THEN {} ELSE {"labels"})

RuleOps == {"print_rule", "print_rule_diffs"}
DiffOps == {"print_diffs", "print_rule_diffs"}
Ops     == {"print_matches", "print_rule", "print_diffs", "print_rule_diffs"}

NoRule == [id |-> "", severity |-> "", message |-> ""]
Rules  == {[id |-> "no-eval", severity |-> "error",   message |-> "do not use $A"],
           [id |-> "no-with", severity |-> "warning", message |-> "avoid with"]}
NoRepl == ""
Repls  == {"baz", "qux"}

NodeMatches == {[node |-> NodeAll, lang |-> "JavaScript", env |-> e] : e \in Envs}

\* a print operation with one item of its batch; operations without a diff or
\* a rule carry NoRepl / NoRule
RecInit ==
  /\ EncInit /\ sequenced = TRUE /\ sinkFails = FALSE
  /\ \E o \in Ops, nm \in NodeMatches :
       \E r \in (IF o \in DiffOps THEN Repls ELSE {NoRepl}) :
         \E ru \in (IF o \in RuleOps THEN Rules ELSE {NoRule}) :
           req = [op |-> o, nm |-> nm, replacement |-> r, rule |-> ru, path |-> "a.js"]
  /\ built = None
  /\ keys = {}

TheDiff == [node_match |-> req.nm, replacement |-> req.replacement]

print_matches_map ==
  /\ req.op = "print_matches" /\ built = None
  /\ built' = Some(print_matches_doc(req.nm, req.path))
  /\ UNCHANGED <<req, keys, encVars, runVars>>

print_rule_map ==
  /\ req.op = "print_rule" /\ built = None
  /\ built' = Some(print_rule_doc(req.nm, req.path, req.rule))
  /\ UNCHANGED <<req, keys, encVars, runVars>>

print_diffs_map ==
  /\ req.op = "print_diffs" /\ built = None
  /\ built' = Some(print_diffs_doc(TheDiff, req.path))
  /\ UNCHANGED <<req, keys, encVars, runVars>>

print_rule_diffs_map ==
  /\ req.op = "print_rule_diffs" /\ built = None
  /\ built' = Some(print_rule_diffs_doc(TheDiff, req.path, req.rule))
  /\ UNCHANGED <<req, keys, encVars, runVars>>

\* serde_json::to_writer_pretty(.., &doc): the keys of the object written
serialize ==
  /\ built # None /\ keys = {}
  /\ keys' = IF req.op \in RuleOps THEN RuleMatchJSON_keys(built[1])
                                   ELSE MatchJSON_keys(built[1])
  /\ UNCHANGED <<req, built, encVars, runVars>>

RecNext ==
  \/ print_matches_map
  \/ print_rule_map
  \/ print_diffs_map
  \/ print_rule_diffs_map
  \/ serialize

RecSpec == RecInit /\ [][RecNext]_vars

\* ------------------------------------------------------------ properties
Positions(c) == {k \in 1..Len(output) : output[k].ch = c}
IsRec(k)     == k \in 1..Len(output) /\ output[k].ch = "rec"
Batches      == 1..Len(log)
Closed       == pc[Controller] = "Closed"

RECURSIVE DocsFrom(_)
\* the records of the batches b, b+1, ... of the log, in call order
DocsFrom(b) ==
  IF b > Len(log) THEN <<>>
  ELSE [i \in 1..log[b].n |-> <<b, i>>] \o DocsFrom(b + 1)

TotalDocs == Len(DocsFrom(1))

RECURSIVE Joined(_)
\* records joined by ",\n"
Joined(ds) ==
  IF ds = <<>> THEN <<>>
  ELSE IF Len(ds) = 1 THEN <<Rec(ds[1])>>
  ELSE <<Rec(ds[1]), COMMA, NL>> \o Joined(Tail(ds))

\* C1: after before_print, any concurrent print calls and after_print, with no
\* failing write, the output starts with its only '[', ends with its only ']'
\* (and the newline after it), and n >= 1 records are separated by exactly
\* n-1 ",\n", each one between two records.
C1_ArrayShape ==
  (Closed /\ faults = 0) =>
    /\ output[1] = LBRACKET
    /\ Positions("[") = {1}
    /\ Positions("]") = {Len(output) - 1}
    /\ output[Len(output)] = NL
    /\ Cardinality(Positions("rec")) = TotalDocs
    /\ TotalDocs >= 1 =>
         /\ Cardinality(Positions(",")) = TotalDocs - 1
         /\ \A k \in Positions(",") :
              IsRec(k - 1) /\ output[k + 1] = NL /\ IsRec(k + 2)
         /\ ~IsRec(2) /\ IsRec(3)
         /\ IsRec(Len(output) - 3)

\* C1 witness: a closed run without failures in which both producers printed
\* records and a batch started later got its records out first.
C1_Witness ==
  /\ Closed /\ faults = 0 /\ TotalDocs >= 3
  /\ \E j, k \in Positions("rec") : j < k /\ output[j].doc[1] > output[k].doc[1]
  /\ \E b, c \in Batches : log[b].p # log[c].p /\ log[b].n >= 1 /\ log[c].n >= 1

\* C2: in every state the records of one batch form one run in the output, in
\* iteration order: record i > 1 of a batch directly follows record i-1 of the
\* same batch and one ",\n", and no record is in the output twice.
C2_BatchContiguous ==
  \A k \in Positions("rec") :
    LET d == output[k].doc IN
    /\ \A j \in Positions("rec") : output[j].doc = d => j = k
    /\ d[2] > 1 =>
         /\ k > 3
         /\ output[k - 3] = Rec(<<d[1], d[2] - 1>>)
         /\ output[k - 2] = COMMA
         /\ output[k - 1] = NL

\* C2 witness: two whole two-record batches of different producers are in the output.
C2_Witness ==
  \E b, c \in Batches :
    /\ log[b].p # log[c].p
    /\ \E j, k \in Positions("rec") : output[j].doc = <<b, 2>> /\ output[k].doc = <<c, 2>>

\* C3: when every print call returned Ok, each record of each batch is in the
\* output exactly once, and the output holds no other record and no fragment.
C3_ExactlyOnce ==
  (\A b \in Batches : log[b].res = "Ok") =>
    /\ \A b \in Batches : \A i \in 1..log[b].n :
         Cardinality({k \in Positions("rec") : output[k].doc = <<b, i>>}) = 1
    /\ \A k \in Positions("rec") :
         output[k].doc[1] \in Batches /\ output[k].doc[2] \in 1..log[output[k].doc[1]].n
    /\ Positions("frag") = {}

\* C3 witness: the calls of both producers all returned Ok and one batch had two records.
C3_Witness ==
  /\ \A b \in Batches : log[b].res = "Ok"
  /\ \E b, c \in Batches : log[b].p # log[c].p /\ log[b].n = 2 /\ log[c].n >= 1

\* C4: when every batch of the run was empty, the closed output is "[" "]" "\n".
C4_AllEmpty ==
  (Closed /\ \A b \in Batches : log[b].n = 0) => output = <<LBRACKET, RBRACKET, NL>>

\* C4 witness: a closed run of MaxCalls empty batches made by both producers.
C4_Witness ==
  /\ Closed /\ Len(log) = MaxCalls
  /\ \A b \in Batches : log[b].n = 0
  /\ \E b, c \in Batches : log[b].p # log[c].p

\* C5: when one thread made all print calls and no write failed, the closed
\* output is "[", then (if there is a record) newline, the records of the
\* batches in call order joined by ",\n", newline, then "]" newline.
C5_Sequential ==
  (Closed /\ faults = 0 /\ \A b \in Batches : log[b].p = log[1].p) =>
    output = <<LBRACKET>>
               \o (IF TotalDocs = 0 THEN <<>> ELSE <<NL>> \o Joined(DocsFrom(1)) \o <<NL>>)
               \o <<RBRACKET, NL>>

\* C5 witness: one thread printed a batch, an empty batch and another batch.
C5_Witness ==
  /\ Closed /\ faults = 0 /\ Len(log) = 3
  /\ \A b \in Batches : log[b].p = log[1].p
  /\ log[1].n = 2 /\ log[2].n = 0 /\ log[3].n >= 1

\* C6: a print call with an empty batch returns Ok and changes neither the
\* sink, nor the flag, nor the holder of the lock.
C6_EmptyNoEffect ==
  [][(Len(log') = Len(log) + 1 /\ log'[Len(log')].n = 0) =>
        /\ log'[Len(log')].res = "Ok"
        /\ output' = output /\ matched' = matched /\ lock' = lock]_vars

\* C6 witness: the first call of the run printed an empty batch (flag false),
\* and a producer printed an empty batch after a batch of its own had
\* returned Ok (flag true).
C6_Witness ==
  /\ log # <<>> /\ log[1].n = 0 /\ log[1].res = "Ok"
  /\ \E b, c \in Batches :
       /\ b < c /\ log[b].p = log[c].p
       /\ log[b].n >= 1 /\ log[b].res = "Ok"
       /\ log[c].n = 0 /\ log[c].res = "Ok"
       /\ matched

\* the records and fragments of batch b in the sink o
OfBatch(o, b) == SelectSeq(o, LAMBDA a : a.ch \in {"rec", "frag"} /\ a.doc[1] = b)

\* C7: a failing write of a batch ends the call at once with Err and frees the
\* lock; a call gets Err only from a failing write of its own; nothing of a
\* failed batch is written afterwards, and no other call's result changes.
C7_FailAborts ==
  [][\A b \in Batches :
       LET p == log[b].p IN
       /\ (faults' > faults /\ lock = p /\ cur[p] = b) =>
            log'[b].res = "Err" /\ pc'[p] = "idle" /\ lock' = NoHolder
       /\ (log[b].res # "Err" /\ log'[b].res = "Err") =>
            /\ faults' = faults + 1 /\ lock = p /\ cur[p] = b
            /\ \A c \in Batches \ {b} : log'[c] = log[c]
       /\ log[b].res = "Err" =>
            /\ log'[b].res = "Err"
            /\ \A k \in (Len(output) + 1)..Len(output') : output'[k].doc[1] # b]_vars

\* C7 witness: a two-record batch failed after its first record, its second
\* record is not in the output, and a later call of the other producer returned Ok.
C7_Witness ==
  \E b, c \in Batches :
    /\ log[b].res = "Err" /\ log[b].n = 2
    /\ OfBatch(output, b) = <<Rec(<<b, 1>>)>>
    /\ log[c].p # log[b].p /\ log[c].res = "Ok"
    /\ OfBatch(output, c) = <<Rec(<<c, 1>>)>>
    /\ \E j, k \in Positions("rec") : j < k /\ output[j].doc[1] = b /\ output[k].doc[1] = c

\* '[' first, no ']', and every ',' directly after a whole record
ValidUnclosed(o) ==
  /\ Len(o) >= 1
  /\ o[1] = LBRACKET
  /\ \A k \in 2..Len(o) :
       /\ o[k] # RBRACKET
       /\ o[k] = COMMA => o[k - 1].ch = "rec"

\* C8: when a batch fails with an I/O error, the output up to that point is
\* still an unclosed array: it starts with '[', the batch wrote no ']', and
\* every ",\n" separator already written is preceded by a complete record.
C8_ValidAfterFailure ==
  [][(\E b \in Batches : log[b].res # "Err" /\ log'[b].res = "Err")
        => ValidUnclosed(output')]_vars
\* the MatchJSON inside the record that was built
Base == IF req.op \in RuleOps THEN built[1].matched ELSE built[1]

\* C9: a record built by print_diffs or print_rule_diffs has replacement
\* Some(the diff's replacement text), one built by print_matches or print_rule
\* has replacement None, and the "replacement" key is written exactly for the former.
C9_Replacement ==
  built # None =>
    /\ req.op \in DiffOps => Base.replacement = Some(req.replacement)
    /\ req.op \notin DiffOps => Base.replacement = None
    /\ keys # {} => (("replacement" \in keys) <=> (req.op \in DiffOps))

\* C9 witness: print_rule_diffs built and serialized a record for replacement "qux".
C9_Witness ==
  /\ built # None /\ keys # {}
  /\ req.op = "print_rule_diffs" /\ req.replacement = "qux"
  /\ "replacement" \in keys

HasNamed(vs) == \E i \in 1..Len(vs) : vs[i].kind \in {"Named", "NamedEllipsis"}

\* C10: from_env returns a table only if the environment enumerates a named
\* variable, and a returned table has a non-empty `single` or `multi`.
C10_TableOnlyIfNamed ==
  (built # None /\ Base.meta_variables # None) =>
    /\ HasNamed(req.nm.env.vars)
    /\ DOMAIN Base.meta_variables[1].single # {} \/ DOMAIN Base.meta_variables[1].multi # {}
\* C11: a record built by print_rule or print_rule_diffs has the rule's id and
\* severity and the message rendered for the match, and its embedded record
\* equals the one print_matches builds for the same match and path, except
\* that print_rule_diffs sets replacement on it.
C11_RuleRecord ==
  (built # None /\ req.op \in RuleOps) =>
    LET r == built[1]
        plain == print_matches_doc(req.nm, req.path)
    IN /\ r.rule_id = req.rule.id
       /\ r.severity = req.rule.severity
       /\ r.message = get_message(req.rule, req.nm)
       /\ r.matched.file = req.path /\ r.matched.text = req.nm.node.text
       /\ r.matched.language = req.nm.lang
       /\ r.matched.range = plain.range
       /\ r.matched.meta_variables = plain.meta_variables
       /\ req.op = "print_rule" => r.matched = plain
       /\ req.op = "print_rule_diffs" =>
            r.matched = [plain EXCEPT !.replacement = Some(req.replacement)]

\* C11 witness: print_rule_diffs built a record for rule "no-with" from a
\* match that bound variables.
C11_Witness ==
  /\ built # None /\ req.op = "print_rule_diffs"
  /\ req.rule.id = "no-with" /\ built[1].severity = "warning"
  /\ built[1].matched.meta_variables # None
  /\ built[1].matched.replacement = Some("baz")
\* C12: whenever no batch holds the sink, the flag `matched` is true only if
\* a complete record is in the output.
C12_FlagOnlyAfterRecord ==
  (lock = NoHolder /\ matched) => Positions("rec") # {}
\* C13: at most one print call of a run swaps the flag from false; that call
\* writes its first record after "[" and a newline, and every other call
\* writes ",\n" before its first record.
C13_OneFirstWriter ==
  /\ Cardinality({b \in Batches : log[b].first}) <= 1
  /\ \A k \in Positions("rec") :
       LET d == output[k].doc IN
       d[2] = 1 =>
         IF log[d[1]].first
         THEN k = 3 /\ output[1] = LBRACKET /\ output[2] = NL
         ELSE k > 3 /\ output[k - 2] = COMMA /\ output[k - 1] = NL

\* C13 witness: three batches of both producers are in the output, and the
\* call that swapped the flag from false was not the first one started.
C13_Witness ==
  /\ Len(log) = 3
  /\ \A b \in Batches : log[b].res = "Ok" /\ log[b].n >= 1
  /\ \E b, c \in Batches : log[b].p # log[c].p
  /\ \E b \in Batches : b > 1 /\ log[b].first
\* C14: the flag starts false and no step sets it back to false; a call that
\* swaps the flag after some batch has failed gets the prior value true and
\* goes on to write the ",\n" separator.
C14_FlagMonotonic ==
  [][/\ matched => matched'
     /\ \A p \in Producers :
          (pc[p] = "swap" /\ pc'[p] # "swap" /\ \E b \in Batches : log[b].res = "Err") =>
            pc'[p] = "loop" /\ ~log'[cur[p]].first]_vars

\* C14 witness: a batch failed, and a batch that acquired the sink after it
\* returned Ok with ",\n" before its first record.
C14_Witness ==
  /\ matched
  /\ \E b, c \in Batches :
       /\ log[b].res = "Err" /\ log[c].res = "Ok" /\ log[b].ord < log[c].ord
       /\ \E k \in Positions("rec") :
            output[k].doc = <<c, 1>> /\ k > 2 /\ output[k - 2] = COMMA /\ output[k - 1] = NL
\* C15: the batches are in the output in the order in which their calls
\* acquired the sink: a record of a batch that acquired it earlier never
\* comes after a record of a batch that acquired it later.
C15_AcquisitionOrder ==
  \A j, k \in Positions("rec") :
    j < k => /\ log[output[j].doc[1]].ord > 0
             /\ log[output[j].doc[1]].ord <= log[output[k].doc[1]].ord

\* C15 witness: a call that was started later acquired the sink first, and
\* both two-record batches are in the output in acquisition order.
C15_Witness ==
  \E b, c \in Batches :
    /\ b < c /\ log[c].ord > 0 /\ log[c].ord < log[b].ord
    /\ log[b].res = "Ok" /\ log[c].res = "Ok"
    /\ \E j, k \in Positions("rec") :
         j < k /\ output[j].doc = <<c, 2>> /\ output[k].doc = <<b, 2>>
\* C16: a print call with an empty batch takes no part in the locking: it can
\* complete in any state in which its thread may call, also while another
\* call holds the sink, and it never acquires the sink.
C16_EmptyNeverLocks ==
  /\ \A p \in Producers :
       (pc[p] = "idle" /\ CanCall(p)) => ENABLED print_docs_empty(p)
  /\ \A b \in Batches : log[b].n = 0 => log[b].res = "Ok" /\ log[b].ord = 0
  /\ \A p \in Producers : lock = p => log[cur[p]].n >= 1

\* C16 witness: an empty batch was printed while another producer held the
\* sink in the middle of its batch, and that producer is still writing.
C16_Witness ==
  \E b \in Batches : \E q \in Producers :
    /\ log[b].n = 0 /\ log[b].held /\ log[b].res = "Ok"
    /\ q # log[b].p /\ lock = q /\ cur[q] < b
    /\ pc[q] = "doc" /\ pos[q] = 1
\* C17: in the table from_env returns, no variable name is a key of both
\* `single` and `multi`.
C17_OneMapPerName ==
  (built # None /\ Base.meta_variables # None) =>
    (DOMAIN Base.meta_variables[1].single) \cap (DOMAIN Base.meta_variables[1].multi) = {}
\* C18: under fair scheduling every print_docs call that was started returns,
\* and the sink lock, once held, becomes free again, also after a failing write.
C18_CallsReturn ==
  /\ \A p \in Producers : (pc[p] # "idle") ~> (pc[p] = "idle")
  /\ (lock # NoHolder) ~> (lock = NoHolder)

\* C18 witness: a batch failed on a write, a batch that acquired the sink after
\* it returned Ok, after_print closed the array, and the lock is free.
C18_Witness ==
  /\ Closed /\ lock = NoHolder /\ AllIdle
  /\ \E b, c \in Batches :
       log[b].res = "Err" /\ log[c].res = "Ok" /\ 0 < log[b].ord /\ log[b].ord < log[c].ord
\* the controlling thread is inside before_print or after_print, past the lock
InLifecycleCall == pc[Controller] \in {"bp_write", "ap_load", "ap_nl", "ap_close"}

\* C19: before_print and after_print hold the sink lock for all they do after
\* acquiring it, after_print's read of the flag included; every write to the
\* sink is made by the holder of the lock; "]" is directly followed by its
\* newline; and no "[" or "]" stands between two records of one batch.
C19_LifecycleAtomic ==
  /\ [](InLifecycleCall => lock = Controller)
  /\ [](\A k \in Positions("[") \cup Positions("]") :
          /\ output[k].ch = "]" => (k < Len(output) /\ output[k + 1] = NL)
          /\ \A j, l \in Positions("rec") :
               (j < k /\ k < l) => output[j].doc[1] # output[l].doc[1])
  /\ [][output' # output =>
          /\ lock # NoHolder
          /\ pc'[lock] # pc[lock]
          /\ \A t \in (Producers \cup {Controller}) \ {lock} : pc'[t] = pc[t]]_vars

\* C19 witness: the lifecycle calls raced with the batches: a record was
\* written before "[", and a whole two-record batch was written after "]".
C19_Witness ==
  /\ ~sequenced /\ Closed
  /\ \E k \in Positions("[") : \E j \in Positions("rec") : j < k
  /\ \E k \in Positions("]") : \E b \in Batches :
       /\ log[b].n = 2 /\ log[b].res = "Ok"
       /\ \A j \in Positions("rec") : output[j].doc[1] = b => j > k
====
